---- MODULE Spec2Model ----
(***************************************************************************)
(* Model of the MemoryManager of main.py: a first-fit allocator over a     *)
(* fixed region with manual defragmentation, block payloads, and one lock  *)
(* around every public method.                                             *)
(*                                                                         *)
(* Offsets are 0-based as in the source: the occupancy list `memory` and   *)
(* every block's `data` list are functions over 0..len-1.  A Python str is *)
(* a sequence of one-character strings; the empty string "" in a block's   *)
(* data list is the placeholder MemoryBlock.__init__ puts there.           *)
(***************************************************************************)
EXTENDS Integers, Sequences, FiniteSets, TLC

\* ---- bounds of the model ----
\* size argument of MemoryManager(size)
MemSize == 3
\* the model stops handing out handles beyond this one
MaxHandle == 3
\* longest data string passed to write
MaxData == 2
\* characters a caller writes
Chars == {"a", "-"}
\* callers that share one MemoryManager
Threads == {"t1", "t2"}

VARIABLES
    memory,       \* self.memory
    allocations,  \* self.allocations
    next_id,      \* self.next_id
    lock,         \* self.lock is held
    lastOp,       \* the call a single caller made last
    result,       \* what that call returned or raised
    issued,       \* history: the handles alloc has returned
    freed,        \* history: the handles free has released
    pc,           \* where each concurrent caller stands
    req,          \* the call each concurrent caller is making
    ret           \* what each concurrent caller's call returned or raised

vars == <<memory, allocations, next_id, lock, lastOp, result, issued, freed, pc, req, ret>>

\* the allocator's own fields
fields == <<memory, allocations, next_id>>

\* ---- inputs the callers draw from ----
SizeArgs == 0..(MemSize + 1)
HandleArgs == 1..(MaxHandle + 1)
OffsetArgs == (-1)..MemSize
LengthArgs == 0..(MemSize + 1)
DataArgs == UNION {[1..n -> Chars] : n \in 0..MaxData}

\* len(self.memory)
MemLen(mem) == Cardinality(DOMAIN mem)

\* ---- results of a call: a returned value or a raised exception ----
NoVal == [kind |-> "none", exc |-> "", msg |-> "", handle |-> 0, str |-> <<>>]
RetNone == [NoVal EXCEPT !.kind = "ok"]
RetHandle(h) == [NoVal EXCEPT !.kind = "handle", !.handle = h]
RetBool == [NoVal EXCEPT !.kind = "true"]
RetStr(s) == [NoVal EXCEPT !.kind = "str", !.str = s]
Raise(e, m) == [NoVal EXCEPT !.kind = "error", !.exc = e, !.msg = m]


\* a call: the method's name and its first argument (0 when it takes none)
Call(name, first) == [op |-> name, arg |-> first]

\* a call with all its arguments, as a concurrent caller makes it
NoReq == [op |-> "none", block_id |-> 0, size |-> 0, offset |-> 0, length |-> 0, data |-> <<>>]

\* the calls the concurrent callers make
Requests ==
    {[NoReq EXCEPT !.op = "alloc", !.size = n] : n \in {1, 2}}
    \cup {[NoReq EXCEPT !.op = "free", !.block_id = h] : h \in {1, 2}}
    \cup {[NoReq EXCEPT !.op = "defragment"]}
    \cup {[NoReq EXCEPT !.op = "write", !.block_id = 1, !.offset = 0, !.data = <<"a">>]}
    \cup {[NoReq EXCEPT !.op = "read", !.block_id = 1, !.offset = 0, !.length = 1]}
    \cup {[NoReq EXCEPT !.op = "str"]}

\* MemoryBlock(start, size): data = [''] * size
MemoryBlock(start, size) ==
    [start |-> start, size |-> size, data |-> [k \in 0..(size - 1) |-> ""]]

\* slip: only the first position of the run is tested
FirstFreeOnly(mem, i, size) == mem[i] = "-"

\* all(self.memory[j] == '-' for j in range(i, i + size))
AllFree(mem, i, size) == \A j \in i..(i + size - 1) : mem[j] = "-"

\* slip: the scan keeps the last free run instead of stopping at the first
ScanLast(mem, size, i) ==
    LET found == {k \in i..(MemLen(mem) - size) : AllFree(mem, k, size)} IN
    IF found = {} THEN -1 ELSE CHOOSE k \in found : \A m \in found : m <= k

\* the while loop of alloc from index i: the first i with a free run, or -1
RECURSIVE Scan(_, _, _)
Scan(mem, size, i) ==
    IF i > MemLen(mem) - size THEN -1
    ELSE IF AllFree(mem, i, size) THEN i
    ELSE Scan(mem, size, i + 1)

\* the state a call leaves and what it returns
Outcome(mem, allocs, nid, res) ==
    [memory |-> mem, allocations |-> allocs, next_id |-> nid, result |-> res]

\* slip: the new block takes the lowest handle not in the table
AllocBodyReuse(mem, allocs, nid, size) ==
    IF size <= 0 \/ size > MemLen(mem)
    THEN Outcome(mem, allocs, nid, Raise("ValueError", "Invalid size for allocation."))
    ELSE LET i == Scan(mem, size, 0)
             block_id == CHOOSE h \in 1..nid : h \notin DOMAIN allocs /\
                             \A g \in 1..(h - 1) : g \in DOMAIN allocs
         IN
         IF i = -1
         THEN Outcome(mem, allocs, nid,
                      Raise("MemoryError", "Insufficient contiguous memory."))
         ELSE Outcome([j \in DOMAIN mem |-> IF j \in i..(i + size - 1) THEN "X" ELSE mem[j]],
                      allocs @@ (block_id :> MemoryBlock(i, size)),
                      nid + 1,
                      RetHandle(block_id))

\* slip: a size above len(self.memory) is left to the scan, which finds no run
AllocBodyNoUpper(mem, allocs, nid, size) ==
    IF size <= 0
    THEN Outcome(mem, allocs, nid, Raise("ValueError", "Invalid size for allocation."))
    ELSE LET i == Scan(mem, size, 0) IN
         IF i = -1
         THEN Outcome(mem, allocs, nid,
                      Raise("MemoryError", "Insufficient contiguous memory."))
         ELSE Outcome([j \in DOMAIN mem |-> IF j \in i..(i + size - 1) THEN "X" ELSE mem[j]],
                      allocs @@ (nid :> MemoryBlock(i, size)),
                      nid + 1,
                      RetHandle(nid))

\* body of alloc(size)
AllocBody(mem, allocs, nid, size) ==
    IF size <= 0 \/ size > MemLen(mem)
    THEN Outcome(mem, allocs, nid, Raise("ValueError", "Invalid size for allocation."))
    ELSE LET i == Scan(mem, size, 0) IN
         IF i = -1
         THEN Outcome(mem, allocs, nid,
                      Raise("MemoryError", "Insufficient contiguous memory."))
         ELSE Outcome([j \in DOMAIN mem |-> IF j \in i..(i + size - 1) THEN "X" ELSE mem[j]],
                      allocs @@ (nid :> MemoryBlock(i, size)),
                      nid + 1,
                      RetHandle(nid))

\* slip: a handle that is not in the table makes free return False
FreeBodyReturnFalse(mem, allocs, nid, block_id) ==
    IF block_id \notin DOMAIN allocs
    THEN Outcome(mem, allocs, nid, [NoVal EXCEPT !.kind = "false"])
    ELSE LET block == allocs[block_id] IN
         Outcome([j \in DOMAIN mem |->
                     IF j \in block.start..(block.start + block.size - 1) THEN "-" ELSE mem[j]],
                 [h \in DOMAIN allocs \ {block_id} |-> allocs[h]],
                 nid,
                 RetBool)

\* slip: the entry is removed but its positions stay marked
FreeBodyNoClear(mem, allocs, nid, block_id) ==
    IF block_id \notin DOMAIN allocs
    THEN Outcome(mem, allocs, nid, Raise("ValueError", "Block ID does not exist."))
    ELSE Outcome(mem, [h \in DOMAIN allocs \ {block_id} |-> allocs[h]], nid, RetBool)

\* slip: the blocks above the released one are moved down into its place
FreeBodyShift(mem, allocs, nid, block_id) ==
    IF block_id \notin DOMAIN allocs
    THEN Outcome(mem, allocs, nid, Raise("ValueError", "Block ID does not exist."))
    ELSE LET block == allocs[block_id] IN
         Outcome([j \in DOMAIN mem |->
                     IF j \in block.start..(block.start + block.size - 1) THEN "-" ELSE mem[j]],
                 [h \in DOMAIN allocs \ {block_id} |->
                     IF allocs[h].start > block.start
                     THEN [allocs[h] EXCEPT !.start = allocs[h].start - block.size]
                     ELSE allocs[h]],
                 nid,
                 RetBool)

\* body of free(block_id)
FreeBody(mem, allocs, nid, block_id) ==
    IF block_id \notin DOMAIN allocs
    THEN Outcome(mem, allocs, nid, Raise("ValueError", "Block ID does not exist."))
    ELSE LET block == allocs[block_id] IN
         Outcome([j \in DOMAIN mem |->
                     IF j \in block.start..(block.start + block.size - 1) THEN "-" ELSE mem[j]],
                 [h \in DOMAIN allocs \ {block_id} |-> allocs[h]],
                 nid,
                 RetBool)

\* slip: the blocks are taken in the order of their handles
FirstByHandle(allocs, hs) == CHOOSE h \in hs : \A g \in hs : h <= g

\* the handle that sorted(..., key=start) yields first among hs; blocks that
\* start at the same offset keep the order of their handles
FirstByStart(allocs, hs) ==
    CHOOSE h \in hs : \A g \in hs :
        \/ allocs[h].start < allocs[g].start
        \/ allocs[h].start = allocs[g].start /\ h <= g

\* slip: the moved block's data is not copied
RECURSIVE CompactNoCopy(_, _, _, _, _)
CompactNoCopy(allocs, todo, curr, new_memory, new_allocations) ==
    IF todo = {} THEN [memory |-> new_memory, allocations |-> new_allocations]
    ELSE LET block_id == FirstByStart(allocs, todo)
             block == allocs[block_id]
         IN CompactNoCopy(allocs, todo \ {block_id}, curr + block.size,
                    [j \in DOMAIN new_memory |->
                        IF j \in curr..(curr + block.size - 1) THEN "X" ELSE new_memory[j]],
                    new_allocations @@ (block_id :> MemoryBlock(curr, block.size)))

\* the for loop of defragment over the blocks not yet moved
RECURSIVE Compact(_, _, _, _, _)
Compact(allocs, todo, curr, new_memory, new_allocations) ==
    IF todo = {} THEN [memory |-> new_memory, allocations |-> new_allocations]
    ELSE LET block_id == FirstByStart(allocs, todo)
             block == allocs[block_id]
         IN Compact(allocs, todo \ {block_id}, curr + block.size,
                    [j \in DOMAIN new_memory |->
                        IF j \in curr..(curr + block.size - 1) THEN "X" ELSE new_memory[j]],
                    new_allocations @@
                        (block_id :> [MemoryBlock(curr, block.size) EXCEPT !.data = block.data]))

\* slip: the new occupancy list is built but self.memory keeps the old one
DefragmentBodyStaleMemory(mem, allocs, nid) ==
    LET new == Compact(allocs, DOMAIN allocs, 0, [j \in DOMAIN mem |-> "-"], <<>>) IN
    Outcome(mem, new.allocations, nid, RetNone)

\* body of defragment()
DefragmentBody(mem, allocs, nid) ==
    LET new == Compact(allocs, DOMAIN allocs, 0, [j \in DOMAIN mem |-> "-"], <<>>) IN
    Outcome(new.memory, new.allocations, nid, RetNone)

\* slip: the characters go to the front of the block whatever the offset
WriteBodyNoOffset(mem, allocs, nid, block_id, offset, data) ==
    IF block_id \notin DOMAIN allocs
    THEN Outcome(mem, allocs, nid, Raise("ValueError", "Block ID does not exist."))
    ELSE LET block == allocs[block_id] IN
         IF offset < 0 \/ offset >= block.size
         THEN Outcome(mem, allocs, nid, Raise("IndexError", "Offset is out of bounds for block."))
         ELSE IF Len(data) > block.size - offset
         THEN Outcome(mem, allocs, nid, Raise("ValueError", "Data exceeds block size."))
         ELSE Outcome(mem,
                      [allocs EXCEPT ![block_id].data =
                          [k \in DOMAIN block.data |->
                              IF k \in 0..(Len(data) - 1)
                              THEN data[k + 1] ELSE block.data[k]]],
                      nid,
                      RetNone)

\* slip: the capacity is tested while writing, after the characters that fit
\* have been stored
WriteBodyPartial(mem, allocs, nid, block_id, offset, data) ==
    IF block_id \notin DOMAIN allocs
    THEN Outcome(mem, allocs, nid, Raise("ValueError", "Block ID does not exist."))
    ELSE LET block == allocs[block_id]
             stored == [allocs EXCEPT ![block_id].data =
                          [k \in DOMAIN block.data |->
                              IF k \in offset..(offset + Len(data) - 1)
                              THEN data[k - offset + 1] ELSE block.data[k]]]
         IN
         IF offset < 0 \/ offset >= block.size
         THEN Outcome(mem, allocs, nid, Raise("IndexError", "Offset is out of bounds for block."))
         ELSE IF Len(data) > block.size - offset
         THEN Outcome(mem, stored, nid, Raise("ValueError", "Data exceeds block size."))
         ELSE Outcome(mem, stored, nid, RetNone)

\* slip: one range test, raising IndexError, covers the offset and the length
WriteBodyOneCheck(mem, allocs, nid, block_id, offset, data) ==
    IF block_id \notin DOMAIN allocs
    THEN Outcome(mem, allocs, nid, Raise("ValueError", "Block ID does not exist."))
    ELSE LET block == allocs[block_id] IN
         IF offset < 0 \/ offset >= block.size \/ offset + Len(data) > block.size
         THEN Outcome(mem, allocs, nid, Raise("IndexError", "Offset is out of bounds for block."))
         ELSE Outcome(mem,
                      [allocs EXCEPT ![block_id].data =
                          [k \in DOMAIN block.data |->
                              IF k \in offset..(offset + Len(data) - 1)
                              THEN data[k - offset + 1] ELSE block.data[k]]],
                      nid,
                      RetNone)

\* slip: the block's data list is rebuilt, so what was written before is lost
WriteBodyReset(mem, allocs, nid, block_id, offset, data) ==
    IF block_id \notin DOMAIN allocs
    THEN Outcome(mem, allocs, nid, Raise("ValueError", "Block ID does not exist."))
    ELSE LET block == allocs[block_id] IN
         IF offset < 0 \/ offset >= block.size
         THEN Outcome(mem, allocs, nid, Raise("IndexError", "Offset is out of bounds for block."))
         ELSE IF Len(data) > block.size - offset
         THEN Outcome(mem, allocs, nid, Raise("ValueError", "Data exceeds block size."))
         ELSE Outcome(mem,
                      [allocs EXCEPT ![block_id].data =
                          [k \in DOMAIN block.data |->
                              IF k \in offset..(offset + Len(data) - 1)
                              THEN data[k - offset + 1] ELSE ""]],
                      nid,
                      RetNone)

\* body of write(block_id, offset, data)
WriteBody(mem, allocs, nid, block_id, offset, data) ==
    IF block_id \notin DOMAIN allocs
    THEN Outcome(mem, allocs, nid, Raise("ValueError", "Block ID does not exist."))
    ELSE LET block == allocs[block_id] IN
         IF offset < 0 \/ offset >= block.size
         THEN Outcome(mem, allocs, nid, Raise("IndexError", "Offset is out of bounds for block."))
         ELSE IF Len(data) > block.size - offset
         THEN Outcome(mem, allocs, nid, Raise("ValueError", "Data exceeds block size."))
         ELSE Outcome(mem,
                      [allocs EXCEPT ![block_id].data =
                          [k \in DOMAIN block.data |->
                              IF k \in offset..(offset + Len(data) - 1)
                              THEN data[k - offset + 1] ELSE block.data[k]]],
                      nid,
                      RetNone)

\* ''.join(block.data[offset:offset + length]): the placeholder '' adds nothing
RECURSIVE Join(_, _, _)
Join(data, from, to) ==
    IF from >= to THEN <<>>
    ELSE (IF data[from] = "" THEN <<>> ELSE <<data[from]>>) \o Join(data, from + 1, to)

\* slip: the length is tested before the offset
ReadBodyLengthFirst(mem, allocs, nid, block_id, offset, length) ==
    IF block_id \notin DOMAIN allocs
    THEN Outcome(mem, allocs, nid, Raise("ValueError", "Block ID does not exist."))
    ELSE IF length <= 0
    THEN Outcome(mem, allocs, nid, Raise("ValueError", "Length must be positive."))
    ELSE IF offset < 0
    THEN Outcome(mem, allocs, nid, Raise("IndexError", "Offset cannot be negative."))
    ELSE IF offset >= MemLen(mem)
    THEN Outcome(mem, allocs, nid, Raise("IndexError", "Offset exceeds memory size."))
    ELSE IF offset + length > MemLen(mem)
    THEN Outcome(mem, allocs, nid, Raise("IndexError", "Read range exceeds memory size."))
    ELSE LET block == allocs[block_id] IN
         IF offset < 0 \/ offset + length > block.size
         THEN Outcome(mem, allocs, nid,
                      Raise("IndexError", "Read range is out of bounds for block."))
         ELSE Outcome(mem, allocs, nid, RetStr(Join(block.data, offset, offset + length)))

\* body of read(block_id, offset, length)
ReadBody(mem, allocs, nid, block_id, offset, length) ==
    IF block_id \notin DOMAIN allocs
    THEN Outcome(mem, allocs, nid, Raise("ValueError", "Block ID does not exist."))
    ELSE IF offset < 0
    THEN Outcome(mem, allocs, nid, Raise("IndexError", "Offset cannot be negative."))
    ELSE IF length <= 0
    THEN Outcome(mem, allocs, nid, Raise("ValueError", "Length must be positive."))
    ELSE IF offset >= MemLen(mem)
    THEN Outcome(mem, allocs, nid, Raise("IndexError", "Offset exceeds memory size."))
    ELSE IF offset + length > MemLen(mem)
    THEN Outcome(mem, allocs, nid, Raise("IndexError", "Read range exceeds memory size."))
    ELSE LET block == allocs[block_id] IN
         IF offset < 0 \/ offset + length > block.size
         THEN Outcome(mem, allocs, nid,
                      Raise("IndexError", "Read range is out of bounds for block."))
         ELSE Outcome(mem, allocs, nid, RetStr(Join(block.data, offset, offset + length)))

\* slip: every position of a live block shows the marker, written or not
StrAtMarker(allocs, p) ==
    IF \E h \in DOMAIN allocs : p \in allocs[h].start..(allocs[h].start + allocs[h].size - 1)
    THEN "X"
    ELSE "-"

\* the character __str__ shows at position p (the ranges of the live blocks
\* are disjoint, so at most one block writes result[p])
StrAt(allocs, p) ==
    IF \E h \in DOMAIN allocs : p \in allocs[h].start..(allocs[h].start + allocs[h].size - 1)
    THEN LET h == CHOOSE h \in DOMAIN allocs :
                      p \in allocs[h].start..(allocs[h].start + allocs[h].size - 1)
             char == allocs[h].data[p - allocs[h].start]
         IN IF char # "" THEN char ELSE "X"
    ELSE "-"

\* body of __str__()
StrBody(mem, allocs, nid) ==
    Outcome(mem, allocs, nid, RetStr([p \in 1..MemLen(mem) |-> StrAt(allocs, p - 1)]))

\* the kind of failure a raised exception stands for
ErrorKind(res) ==
    IF res.kind # "error" THEN "none"
    ELSE IF res.exc = "MemoryError" THEN "OutOfMemory"
    ELSE IF res.exc = "IndexError" THEN "OutOfBounds"
    ELSE IF res.msg = "Block ID does not exist." THEN "UnknownHandle"
    ELSE IF res.msg = "Data exceeds block size." THEN "CapacityExceeded"
    ELSE "InvalidArgument"

Init ==
    /\ memory = [j \in 0..(MemSize - 1) |-> "-"]
    /\ allocations = <<>>
    /\ next_id = 1
    /\ lock = FALSE
    /\ lastOp = Call("none", 0)
    /\ result = NoVal
    /\ issued = {}
    /\ freed = {}
    /\ pc = [t \in Threads |-> "idle"]
    /\ req = [t \in Threads |-> NoReq]
    /\ ret = [t \in Threads |-> NoVal]

\* the history of handles after a call of method op on handle h returned res
Track(op, h, res) ==
    /\ issued' = IF res.kind = "handle" THEN issued \cup {res.handle} ELSE issued
    /\ freed' = IF op = "free" /\ res.kind = "true" THEN freed \cup {h} ELSE freed

\* a call by a single caller: the lock is taken and released around the body;
\* lastOp is the call made last and result what it returned
Apply(call, out) ==
    /\ lock = FALSE
    /\ memory' = out.memory
    /\ allocations' = out.allocations
    /\ next_id' = out.next_id
    /\ result' = out.result
    /\ lastOp' = call
    /\ Track(call.op, call.arg, out.result)
    /\ UNCHANGED <<lock, pc, req, ret>>

\* alloc(size); the model hands out no handle above MaxHandle
Alloc(size) ==
    LET out == AllocBody(memory, allocations, next_id, size) IN
    /\ out.result.kind = "handle" => next_id <= MaxHandle
    /\ Apply(Call("alloc", size), out)

Free(block_id) ==
    Apply(Call("free", block_id),
          FreeBody(memory, allocations, next_id, block_id))

Defragment ==
    Apply(Call("defragment", 0), DefragmentBody(memory, allocations, next_id))

Write(block_id, offset, data) ==
    Apply(Call("write", block_id),
          WriteBody(memory, allocations, next_id, block_id, offset, data))

Read(block_id, offset, length) ==
    Apply(Call("read", block_id),
          ReadBody(memory, allocations, next_id, block_id, offset, length))

Str ==
    Apply(Call("str", 0), StrBody(memory, allocations, next_id))

Next ==
    \/ \E size \in SizeArgs : Alloc(size)
    \/ \E block_id \in HandleArgs : Free(block_id)
    \/ Defragment
    \/ \E block_id \in HandleArgs, offset \in OffsetArgs, data \in DataArgs :
          Write(block_id, offset, data)
    \/ \E block_id \in HandleArgs, offset \in OffsetArgs, length \in LengthArgs :
          Read(block_id, offset, length)
    \/ Str

Spec == Init /\ [][Next]_vars

\* ---- concurrent callers: each method is `with self.lock: <body>` ----

\* the body of the method a request names
RunBody(r, mem, allocs, nid) ==
    CASE r.op = "alloc" -> AllocBody(mem, allocs, nid, r.size)
      [] r.op = "free" -> FreeBody(mem, allocs, nid, r.block_id)
      [] r.op = "defragment" -> DefragmentBody(mem, allocs, nid)
      [] r.op = "write" -> WriteBody(mem, allocs, nid, r.block_id, r.offset, r.data)
      [] r.op = "read" -> ReadBody(mem, allocs, nid, r.block_id, r.offset, r.length)
      [] r.op = "str" -> StrBody(mem, allocs, nid)

\* slip: the lock does not exclude a second holder
CanAcquireHeld(held) == TRUE

\* Lock.acquire() can return
CanAcquire(held) == ~held

\* thread t calls a method; it has not reached `with self.lock` yet (the
\* model makes no alloc call once next_id is above MaxHandle)
Invoke(t, r) ==
    /\ pc[t] = "idle"
    /\ r.op = "alloc" => next_id <= MaxHandle
    /\ pc' = [pc EXCEPT ![t] = "waiting"]
    /\ req' = [req EXCEPT ![t] = r]
    /\ ret' = [ret EXCEPT ![t] = NoVal]
    /\ UNCHANGED <<memory, allocations, next_id, lock, lastOp, result, issued, freed>>

\* `with self.lock:` entered
Acquire(t) ==
    /\ pc[t] = "waiting"
    /\ CanAcquire(lock)
    /\ lock' = TRUE
    /\ pc' = [pc EXCEPT ![t] = "body"]
    /\ UNCHANGED <<memory, allocations, next_id, lastOp, result, issued, freed, req, ret>>

\* the statements inside the with block, up to the return or the raise
Body(t) ==
    /\ pc[t] = "body"
    /\ LET out == RunBody(req[t], memory, allocations, next_id) IN
       /\ memory' = out.memory
       /\ allocations' = out.allocations
       /\ next_id' = out.next_id
       /\ ret' = [ret EXCEPT ![t] = out.result]
       /\ Track(req[t].op, req[t].block_id, out.result)
    /\ pc' = [pc EXCEPT ![t] = "exit"]
    /\ UNCHANGED <<lock, lastOp, result, req>>

\* slip: the lock is released before a return only, a raise leaves it held
ReleaseOnReturn(t) ==
    /\ pc[t] = "exit"
    /\ lock' = (ret[t].kind = "error")
    /\ pc' = [pc EXCEPT ![t] = "idle"]
    /\ UNCHANGED <<memory, allocations, next_id, lastOp, result, issued, freed, req, ret>>

\* the with block left, by return or by raise: the lock is released
Release(t) ==
    /\ pc[t] = "exit"
    /\ lock' = FALSE
    /\ pc' = [pc EXCEPT ![t] = "idle"]
    /\ UNCHANGED <<memory, allocations, next_id, lastOp, result, issued, freed, req, ret>>

ConcNext ==
    \/ \E t \in Threads, r \in Requests : Invoke(t, r)
    \/ \E t \in Threads : Acquire(t)
    \/ \E t \in Threads : Body(t)
    \/ \E t \in Threads : Release(t)

ConcSpec == Init /\ [][ConcNext]_vars

\* the threads are scheduled fairly: a thread inside a with block goes on
\* running, and a thread waiting for the lock gets it if it is free again and
\* again
FairConcSpec ==
    /\ ConcSpec
    /\ \A t \in Threads : SF_vars(Acquire(t)) /\ WF_vars(Body(t)) /\ WF_vars(Release(t))

\* ---- what the block table says, independently of self.memory ----

\* the positions of block h
Range(allocs, h) == allocs[h].start..(allocs[h].start + allocs[h].size - 1)

\* position p lies inside a live block
Occupied(allocs, p) == \E h \in DOMAIN allocs : p \in Range(allocs, h)

\* offsets at which a block of the given size fits between the live blocks
Candidates(allocs, size) ==
    {i \in 0..(MemSize - size) : \A p \in i..(i + size - 1) : ~Occupied(allocs, p)}

\* number of positions in no live block
FreeCount(allocs) == Cardinality({p \in 0..(MemSize - 1) : ~Occupied(allocs, p)})

\* sum of the sizes of the blocks hs
RECURSIVE SumSizes(_, _)
SumSizes(allocs, hs) ==
    IF hs = {} THEN 0
    ELSE LET h == CHOOSE h \in hs : TRUE IN allocs[h].size + SumSizes(allocs, hs \ {h})

\* C1: every live block has size >= 1 and lies inside [0, N), and the ranges
\* of two distinct live blocks are disjoint, after any sequence of calls.
C1_BlocksDisjointInRegion ==
    /\ \A h \in DOMAIN allocations :
          /\ allocations[h].size >= 1
          /\ 0 <= allocations[h].start
          /\ allocations[h].start + allocations[h].size <= MemSize
    /\ \A h, g \in DOMAIN allocations :
          h # g => Range(allocations, h) \cap Range(allocations, g) = {}

\* C1 witness: several blocks are live after frees and a defragment, one of
\* them longer than one position.
C1_Witness ==
    /\ lastOp.op = "defragment"
    /\ freed # {}
    /\ Cardinality(DOMAIN allocations) >= 2
    /\ \E h \in DOMAIN allocations : allocations[h].size >= 2

\* C2: alloc(size) with 1 <= size <= N puts the new block at the lowest offset
\* at which it fits between the live blocks, and raises MemoryError exactly
\* when there is no such offset; it then moves nothing.
C2_FirstFit ==
    [][\A size \in 1..MemSize :
          lastOp' = Call("alloc", size) =>
             LET fit == Candidates(allocations, size) IN
             IF fit = {}
             THEN ErrorKind(result') = "OutOfMemory" /\ allocations' = allocations
             ELSE /\ result'.kind = "handle"
                  /\ result'.handle \in DOMAIN allocations'
                  /\ result'.handle \notin DOMAIN allocations
                  /\ allocations'[result'.handle].size = size
                  /\ \A i \in fit : allocations'[result'.handle].start <= i
                  /\ allocations'[result'.handle].start \in fit]_vars

\* C2 witness: an alloc(2) has failed with MemoryError although two positions
\* are free, because they are not adjacent.
C2_Witness ==
    /\ lastOp = Call("alloc", 2)
    /\ ErrorKind(result) = "OutOfMemory"
    /\ FreeCount(allocations) >= 2

\* C3: defragment() keeps the set of live handles, every block's size and
\* every position of every block's data, and the next-handle counter.
C3_DefragmentFrame ==
    [][lastOp'.op = "defragment" =>
          /\ DOMAIN allocations' = DOMAIN allocations
          /\ \A h \in DOMAIN allocations :
                /\ allocations'[h].size = allocations[h].size
                /\ allocations'[h].data = allocations[h].data
          /\ next_id' = next_id]_vars

\* C3 witness: after a defragment, a block that was moved to the front (a
\* handle was freed before it) holds a written and a never-written position.
C3_Witness ==
    /\ lastOp.op = "defragment"
    /\ \E h \in DOMAIN allocations :
          /\ \E g \in freed : g < h
          /\ \E k \in DOMAIN allocations[h].data : allocations[h].data[k] = ""
          /\ \E k \in DOMAIN allocations[h].data : allocations[h].data[k] \in Chars

\* C4: defragment() packs the live blocks from offset 0 in the order of their
\* old start offsets, so the free space is the trailing run [sum of sizes, N).
C4_DefragmentPacks ==
    [][lastOp'.op = "defragment" =>
          /\ \A h \in DOMAIN allocations :
                allocations'[h].start =
                   SumSizes(allocations, {g \in DOMAIN allocations :
                                             allocations[g].start < allocations[h].start})
          /\ \A p \in 0..(MemSize - 1) :
                Occupied(allocations', p) <=> p < SumSizes(allocations, DOMAIN allocations)]_vars

\* C4 witness: after a defragment, two packed blocks stand in an order that is
\* not the order of their handles, and free space follows them.
C4_Witness ==
    /\ lastOp.op = "defragment"
    /\ \E h, g \in DOMAIN allocations :
          h < g /\ allocations[g].start < allocations[h].start
    /\ FreeCount(allocations) >= 1

\* C5: a successful alloc returns a handle greater than every handle returned
\* before, and a handle that free has released is never a key of the table
\* again.
C5_NoRecycle ==
    [][/\ (lastOp'.op = "alloc" /\ result'.kind = "handle") =>
            \A h \in issued : h < result'.handle
       /\ freed' \cap DOMAIN allocations' = {}]_vars

\* C5 witness: an alloc has succeeded after a free released a handle, and the
\* new handle is above every released one.
C5_Witness ==
    /\ lastOp.op = "alloc"
    /\ result.kind = "handle"
    /\ freed # {}
    /\ \A h \in freed : h < result.handle
    /\ Cardinality(DOMAIN allocations) < Cardinality(issued)

\* C6, C9 and C10 speak of what write and read do with any arguments in any
\* state the allocator reaches: they are stated of WriteBody and ReadBody,
\* the bodies the actions Write and Read apply, in every reachable state.

\* C6 as claimed: for a live h, 0 <= o < size and any data d that fits
\* (the empty string included), write(h, o, d) followed at once by
\* read(h, o, len(d)) returns d.
C6_RoundTripAnyData ==
    \A h \in HandleArgs, o \in OffsetArgs, d \in DataArgs :
       LET w == WriteBody(memory, allocations, next_id, h, o, d) IN
       w.result.kind = "ok" =>
          ReadBody(w.memory, w.allocations, w.next_id, h, o, Len(d)).result = RetStr(d)

\* C6 amended: for a live h, 0 <= o < size and any non-empty data d that
\* fits, write(h, o, d) followed at once by read(h, o, len(d)) returns d.
C6_RoundTrip ==
    \A h \in HandleArgs, o \in OffsetArgs, d \in DataArgs \ {<<>>} :
       LET w == WriteBody(memory, allocations, next_id, h, o, d) IN
       w.result.kind = "ok" =>
          ReadBody(w.memory, w.allocations, w.next_id, h, o, Len(d)).result = RetStr(d)

\* C6 witness: a write has succeeded at an offset above 0 of a block whose
\* first position was never written.
C6_Witness ==
    /\ lastOp.op = "write"
    /\ result.kind = "ok"
    /\ lastOp.arg \in DOMAIN allocations
    /\ allocations[lastOp.arg].size >= 2
    /\ allocations[lastOp.arg].data[0] = ""
    /\ allocations[lastOp.arg].data[1] \in Chars

\* C7: a call of alloc, free, write or read that raises leaves the block
\* table, the occupancy list and the next-handle counter as they were.
C7_FailureAtomic ==
    [][(result'.kind = "error" /\ lastOp'.op \in {"alloc", "free", "write", "read"}) =>
          /\ memory' = memory
          /\ allocations' = allocations
          /\ next_id' = next_id]_vars

\* C7 witness: a write has failed because the data did not fit into a block
\* that holds written characters, and an alloc may still be served.
C7_Witness ==
    /\ lastOp.op = "write"
    /\ ErrorKind(result) = "CapacityExceeded"
    /\ lastOp.arg \in DOMAIN allocations
    /\ \E k \in DOMAIN allocations[lastOp.arg].data :
          allocations[lastOp.arg].data[k] \in Chars
    /\ next_id <= MaxHandle

\* the ranges of the live blocks are inside the region and pairwise disjoint
TableSound(allocs) ==
    /\ \A h \in DOMAIN allocs : 0 <= allocs[h].start /\ allocs[h].start + allocs[h].size <= MemSize
    /\ \A h, g \in DOMAIN allocs : h # g => Range(allocs, h) \cap Range(allocs, g) = {}

\* the callers inside a with block
Inside == {t \in Threads : pc[t] \in {"body", "exit"}}

\* C8: with concurrent callers at most one method body runs at a time and the
\* lock is held exactly while one runs; two callers never hold the same
\* handle from alloc, and the block table stays sound.
C8_MutualExclusion ==
    /\ Cardinality(Inside) <= 1
    /\ lock <=> Inside # {}
    /\ \A t, u \in Threads :
          (t # u /\ ret[t].kind = "handle" /\ ret[u].kind = "handle") =>
             ret[t].handle # ret[u].handle
    /\ TableSound(allocations)

\* C8 witness: one caller is inside defragment, holding the lock, while
\* another, which called __str__, waits for it; blocks are live and a handle
\* has been released, so the defragment has blocks to move.
C8_Witness ==
    \E t, u \in Threads :
       /\ t # u
       /\ pc[t] = "body" /\ req[t].op = "defragment"
       /\ pc[u] = "waiting" /\ req[u].op = "str"
       /\ lock
       /\ Cardinality(DOMAIN allocations) >= 2
       /\ freed # {}

\* the failure read(h, o, l) reports according to the order claimed
ClaimedReadKind(allocs, h, o, l) ==
    IF h \notin DOMAIN allocs THEN "UnknownHandle"
    ELSE IF l <= 0 THEN "InvalidArgument"
    ELSE IF o < 0 THEN "OutOfBounds"
    ELSE IF o + l > allocs[h].size THEN "OutOfBounds"
    ELSE "none"

\* the failure read(h, o, l) reports with the offset's sign tested first
AmendedReadKind(allocs, h, o, l) ==
    IF h \notin DOMAIN allocs THEN "UnknownHandle"
    ELSE IF o < 0 THEN "OutOfBounds"
    ELSE IF l <= 0 THEN "InvalidArgument"
    ELSE IF o + l > allocs[h].size THEN "OutOfBounds"
    ELSE "none"

\* C9 as claimed: read reports the first violated precondition in the order
\* handle absent (UnknownHandle), length <= 0 (InvalidArgument), offset < 0
\* (OutOfBounds), offset + length > block.size (OutOfBounds).
C9_ReadOrderAsClaimed ==
    \A h \in HandleArgs, o \in OffsetArgs, l \in LengthArgs :
       ErrorKind(ReadBody(memory, allocations, next_id, h, o, l).result)
          = ClaimedReadKind(allocations, h, o, l)

\* C9 amended: read reports the first violated precondition in the order
\* handle absent (UnknownHandle), offset < 0 (OutOfBounds), length <= 0
\* (InvalidArgument), offset + length > block.size (OutOfBounds), the last
\* also when offset + length <= N; it succeeds when none is violated.
C9_ReadOrder ==
    \A h \in HandleArgs, o \in OffsetArgs, l \in LengthArgs :
       ErrorKind(ReadBody(memory, allocations, next_id, h, o, l).result)
          = AmendedReadKind(allocations, h, o, l)

\* C9 witness: a read on a live handle of a block shorter than the region
\* has failed at the block-size test, which only a range inside the region
\* reaches.
C9_Witness ==
    /\ lastOp.op = "read"
    /\ lastOp.arg \in DOMAIN allocations
    /\ allocations[lastOp.arg].size < MemSize
    /\ result = Raise("IndexError", "Read range is out of bounds for block.")

\* C10 as claimed: a successful read(h, offset, length) returns exactly
\* `length` characters, the data positions offset..offset+length-1 of block
\* h, also where the block was never written.
C10_ReadExactSlice ==
    \A h \in HandleArgs, o \in OffsetArgs, l \in LengthArgs :
       LET r == ReadBody(memory, allocations, next_id, h, o, l).result IN
       r.kind = "str" =>
          /\ Len(r.str) = l
          /\ \A k \in 1..l : r.str[k] = allocations[h].data[o + k - 1]

\* what free, write and read raise for a handle that is not in the table
UnknownHandle == Raise("ValueError", "Block ID does not exist.")

\* C11: free(h), write(h, ...) and read(h, ...) raise the same ValueError,
\* of kind UnknownHandle, whenever h is not a key of the table, whatever the
\* other arguments; a released handle is not a key, so every later call on it
\* fails the same way as a call on a handle that was never returned.
C11_UnknownHandle ==
    /\ freed \cap DOMAIN allocations = {}
    /\ \A h \in HandleArgs \ DOMAIN allocations :
          /\ FreeBody(memory, allocations, next_id, h).result = UnknownHandle
          /\ \A o \in OffsetArgs, d \in DataArgs :
                WriteBody(memory, allocations, next_id, h, o, d).result = UnknownHandle
          /\ \A o \in OffsetArgs, l \in LengthArgs :
                ReadBody(memory, allocations, next_id, h, o, l).result = UnknownHandle
          /\ ErrorKind(UnknownHandle) = "UnknownHandle"

\* C11 witness: a second free of a released handle has raised, while a handle
\* that was never returned is still to come.
C11_Witness ==
    /\ lastOp.op = "free"
    /\ lastOp.arg \in freed
    /\ result = UnknownHandle
    /\ next_id <= MaxHandle
    /\ allocations # <<>>

\* C12: alloc(size) raises ValueError, kind InvalidArgument, exactly when
\* size < 1 or size > N, in every state, full or empty; it returns a handle
\* or raises MemoryError only when 1 <= size <= N.
C12_AllocInvalidSize ==
    \A size \in (-1)..(MemSize + 1) :
       LET r == AllocBody(memory, allocations, next_id, size).result IN
       IF size < 1 \/ size > MemSize
       THEN r.exc = "ValueError" /\ ErrorKind(r) = "InvalidArgument"
       ELSE r.kind = "handle" \/ ErrorKind(r) = "OutOfMemory"

\* C12 witness: alloc(N + 1) has raised ValueError while every position of
\* the region is occupied.
C12_Witness ==
    /\ lastOp = Call("alloc", MemSize + 1)
    /\ ErrorKind(result) = "InvalidArgument"
    /\ FreeCount(allocations) = 0

\* C13: write(h, offset, data) on a live h raises IndexError, kind
\* OutOfBounds, when offset < 0 or offset >= block.size, whatever data is (the
\* empty string included); it raises ValueError, kind CapacityExceeded,
\* exactly when 0 <= offset < block.size and len(data) > block.size - offset;
\* otherwise it succeeds.
C13_WriteErrors ==
    \A h \in DOMAIN allocations, o \in OffsetArgs, d \in DataArgs :
       LET r == WriteBody(memory, allocations, next_id, h, o, d).result
           size == allocations[h].size
       IN
       IF o < 0 \/ o >= size
       THEN r.exc = "IndexError" /\ ErrorKind(r) = "OutOfBounds"
       ELSE IF Len(d) > size - o
       THEN r.exc = "ValueError" /\ ErrorKind(r) = "CapacityExceeded"
       ELSE r.kind = "ok"

\* C13 witness: a write on a live handle has raised IndexError for its offset,
\* on a block that has room left in the region after it.
C13_Witness ==
    /\ lastOp.op = "write"
    /\ lastOp.arg \in DOMAIN allocations
    /\ result = Raise("IndexError", "Offset is out of bounds for block.")
    /\ allocations[lastOp.arg].start + allocations[lastOp.arg].size < MemSize

\* C14: a successful write(h, offset, data) sets the data positions
\* offset..offset+len(data)-1 of block h to the characters of data and leaves
\* every other position of h, h's start and size, every other block, the
\* occupancy list and the next-handle counter as they were; with empty data
\* nothing changes.
C14_WriteFrame ==
    \A h \in HandleArgs, o \in OffsetArgs, d \in DataArgs :
       LET w == WriteBody(memory, allocations, next_id, h, o, d) IN
       w.result.kind = "ok" =>
          /\ w.memory = memory
          /\ w.next_id = next_id
          /\ DOMAIN w.allocations = DOMAIN allocations
          /\ \A g \in DOMAIN allocations \ {h} : w.allocations[g] = allocations[g]
          /\ w.allocations[h].start = allocations[h].start
          /\ w.allocations[h].size = allocations[h].size
          /\ DOMAIN w.allocations[h].data = DOMAIN allocations[h].data
          /\ \A k \in DOMAIN allocations[h].data :
                w.allocations[h].data[k] =
                   IF o <= k /\ k < o + Len(d) THEN d[k - o + 1] ELSE allocations[h].data[k]
          /\ d = <<>> => w.allocations = allocations

\* C14 witness: a write has succeeded on a block that keeps a never-written
\* position next to a written one, while another live block holds data too.
C14_Witness ==
    /\ lastOp.op = "write"
    /\ result.kind = "ok"
    /\ lastOp.arg \in DOMAIN allocations
    /\ \E k, m \in DOMAIN allocations[lastOp.arg].data :
          /\ allocations[lastOp.arg].data[k] \in Chars
          /\ allocations[lastOp.arg].data[m] = ""
    /\ \E g \in DOMAIN allocations \ {lastOp.arg} :
          \E k \in DOMAIN allocations[g].data : allocations[g].data[k] \in Chars

\* the symbol the snapshot is to show at position p of the region
Symbol(allocs, p) ==
    IF ~Occupied(allocs, p) THEN "-"
    ELSE LET h == CHOOSE h \in DOMAIN allocs : p \in Range(allocs, h)
             written == allocs[h].data[p - allocs[h].start]
         IN IF written \in Chars THEN written ELSE "X"

\* C15: __str__() returns N symbols, at position p '-' when p is in no live
\* block, the written character when p is a written position of a live
\* block, 'X' otherwise; it changes nothing, and a second __str__() right
\* after it returns the same.
C15_Snapshot ==
    [][lastOp'.op = "str" =>
          /\ result'.kind = "str"
          /\ Len(result'.str) = MemSize
          /\ \A p \in 0..(MemSize - 1) : result'.str[p + 1] = Symbol(allocations, p)
          /\ memory' = memory /\ allocations' = allocations /\ next_id' = next_id
          /\ StrBody(memory', allocations', next_id').result = result']_vars

\* C15 witness: a snapshot has shown a written character, the marker of a
\* never-written position and a free position.
C15_Witness ==
    /\ lastOp.op = "str"
    /\ result.kind = "str"
    /\ \E p, q, r \in 1..MemSize :
          /\ result.str[p] = "a"
          /\ result.str[q] = "X"
          /\ result.str[r] = "-" /\ ~Occupied(allocations, r - 1)

\* C16: right after defragment(), alloc(s) with 1 <= s <= N succeeds exactly
\* when s <= N - (sum of the live sizes), and the new block then starts at
\* that sum; so an alloc(s) that raised MemoryError with s or more positions
\* free succeeds when it is made again after the defragment().
C16_AllocAfterDefragment ==
    [][lastOp'.op = "defragment" =>
          \A s \in 1..MemSize :
             LET a == AllocBody(memory', allocations', next_id', s)
                 used == SumSizes(allocations, DOMAIN allocations)
             IN
             /\ a.result.kind = "handle" <=> s <= MemSize - used
             /\ a.result.kind # "handle" => ErrorKind(a.result) = "OutOfMemory"
             /\ a.result.kind = "handle" => a.allocations[a.result.handle].start = used
             /\ (/\ lastOp = Call("alloc", s)
                 /\ ErrorKind(result) = "OutOfMemory"
                 /\ FreeCount(allocations) >= s) => a.result.kind = "handle"]_vars

\* C16 witness: a defragment has run on a table with a released handle and
\* live blocks; two positions are free and a handle is left for the alloc.
C16_Witness ==
    /\ lastOp.op = "defragment"
    /\ freed # {}
    /\ allocations # <<>>
    /\ FreeCount(allocations) >= 2
    /\ next_id <= MaxHandle
    /\ AllocBody(memory, allocations, next_id, 2).result.kind = "handle"

\* C17: the lock is free whenever no caller is inside a with block, after a
\* return and after a raise alike, and under fair scheduling every call that
\* was made gets the lock and comes back with a value or an exception.
C17_LockReleased ==
    /\ [](Inside = {} => ~lock)
    /\ \A t \in Threads :
          (pc[t] = "waiting") ~> (pc[t] = "idle" /\ ret[t].kind # "none")

\* C17 witness: one caller's call has raised and left the with block, and the
\* other caller has been given the lock after it on a table with live blocks.
C17_Witness ==
    \E t, u \in Threads :
       /\ t # u
       /\ ret[t].kind = "error" /\ pc[t] = "idle"
       /\ pc[u] = "body" /\ lock
       /\ allocations # <<>>

\* C18: after every call, memory[p] is 'X' exactly for the positions p inside
\* a live block and '-' for all others, so the scan of alloc over the list
\* finds what a scan over the table would find.
C18_OccupancyInSync ==
    /\ DOMAIN memory = 0..(MemSize - 1)
    /\ \A p \in 0..(MemSize - 1) :
          memory[p] = IF Occupied(allocations, p) THEN "X" ELSE "-"
    /\ \A size \in 1..MemSize :
          {i \in 0..(MemSize - size) : AllFree(memory, i, size)} = Candidates(allocations, size)

\* C18 witness: a free has left a hole below a live block, after a defragment
\* had rebuilt the list.
C18_Witness ==
    /\ lastOp.op = "free"
    /\ result.kind = "true"
    /\ Cardinality(freed) >= 2
    /\ memory[0] = "-"
    /\ \E p \in 1..(MemSize - 1) : memory[p] = "X"

\* C19: a successful alloc adds one entry, under a handle that was not a key,
\* and a successful free(h) removes the entry of h; every other entry keeps
\* its handle, start, size and data, and free leaves next_id as it was.
C19_AllocFreeFrame ==
    [][/\ (lastOp'.op = "alloc" /\ result'.kind = "handle") =>
            /\ result'.handle \notin DOMAIN allocations
            /\ DOMAIN allocations' = DOMAIN allocations \cup {result'.handle}
            /\ \A g \in DOMAIN allocations : allocations'[g] = allocations[g]
       /\ (lastOp'.op = "free" /\ result'.kind = "true") =>
            /\ lastOp'.arg \in DOMAIN allocations
            /\ DOMAIN allocations' = DOMAIN allocations \ {lastOp'.arg}
            /\ \A g \in DOMAIN allocations' : allocations'[g] = allocations[g]
            /\ next_id' = next_id]_vars

\* C19 witness: a free has succeeded and a block with written data still
\* stands above the positions that became free.
C19_Witness ==
    /\ lastOp.op = "free"
    /\ result.kind = "true"
    /\ ~Occupied(allocations, 0)
    /\ \E g \in DOMAIN allocations :
          /\ allocations[g].start > 0
          /\ \E k \in DOMAIN allocations[g].data : allocations[g].data[k] \in Chars

\* C20 as claimed: whatever was written, the snapshot shows '-' at position p
\* exactly when p is in no live block.
C20_FreeSymbolUnambiguous ==
    LET shown == StrBody(memory, allocations, next_id).result.str IN
    \A p \in 0..(MemSize - 1) : shown[p + 1] = "-" <=> ~Occupied(allocations, p)
====
